---- MODULE Spec2Model ----
(***************************************************************************)
(* Model of the LLM-orchestration pipeline of app/services/openai_service  *)
(* (retry strategy, empty-response handler, two-stage analyzer, facade).   *)
(*                                                                         *)
(* The code is asynchronous: an action of the model is the code that runs  *)
(* between two suspend points (a provider request or an asyncio.sleep).    *)
(* A frame record holds the local variables of a coroutine that is         *)
(* suspended: ewr for execute_with_retry, her for handle_empty_response.   *)
(***************************************************************************)
EXTENDS Integers, Sequences, FiniteSets, TLC

VARIABLES
    caller,                  \* the entry point that was invoked, "" before
    retry_strategy,          \* APIRetryStrategy: max_retries, initial_delay, backoff_factor
    empty_response_handler,  \* EmptyResponseHandler: max_retries, delay_between_retries
    ewr,                     \* frame of execute_with_retry
    her,                     \* frame of handle_empty_response
    request,                 \* the provider request in flight (kwargs of call_api)
    dataset,                 \* the dict passed to analyze_data
    analysis,                \* frame of analyze_data
    facade,                  \* frame of the facade operation
    helper,                  \* a direct call of a helper function: what went in and came out
    elapsed,                 \* time slept so far by a call made outside a run
    sent,                    \* requests issued so far by a call made outside a run
    runs                     \* the frames of the runs that share the service concurrently

vars ==
    <<caller, retry_strategy, empty_response_handler, ewr, her, request, dataset,
      analysis, facade, helper, elapsed, sent, runs>>

(***************************************************************************)
(* Bounds of the model and constants of the program.                       *)
(***************************************************************************)
MaxRetriesBound == 3        \* execute_with_retry is checked for max_retries in 0..this
MaxInitialDelay == 2        \* ... initial_delay in 1..this
MaxBackoffFactor == 3       \* ... backoff_factor in 1..this
MaxHandlerRetries == 3      \* handle_empty_response is checked for max_retries in 0..this
MaxHandlerDelay == 2        \* ... delay_between_retries in 1..this

DefaultMaxRetries == 3
DefaultInitialDelay == 1
DefaultBackoffFactor == 2
DefaultHandlerMaxRetries == 3
DefaultHandlerDelay == 2

(***************************************************************************)
(* Text.  A string is a sequence of tokens; " " is a whitespace character. *)
(***************************************************************************)
isspace(s) == Len(s) > 0 /\ \A k \in 1..Len(s) : s[k] = " "

(***************************************************************************)
(* What one call of the wrapped function can do: raise, or return a        *)
(* response.  content_is_none stands for message.content = None.           *)
(***************************************************************************)
Raises == [raises |-> TRUE, choices |-> FALSE, content_is_none |-> TRUE, content |-> <<>>]
Response(choices, none, content) ==
    [raises |-> FALSE, choices |-> choices, content_is_none |-> none, content |-> content]

NoResponse == Response(FALSE, TRUE, <<>>)    \* the value None of handle_empty_response

\* variant of ContentPresent: the whitespace test left out
ContentPresentNoSpaceTest(response) ==
    /\ ~response.content_is_none
    /\ Len(response.content) > 0

\* content and not content.isspace()
ContentPresent(response) ==
    /\ ~response.content_is_none
    /\ Len(response.content) > 0
    /\ ~isspace(response.content)

\* response and hasattr(response, 'choices') and response.choices and the content test
ResponseUsable(response) ==
    /\ ~response.raises
    /\ response.choices
    /\ ContentPresent(response)

(***************************************************************************)
(* APIRetryStrategy.execute_with_retry                                     *)
(***************************************************************************)
EwrIdle ==
    [pc |-> "idle", retries |-> 0, delay |-> 0, attempts |-> 0, slept |-> <<>>,
     result |-> NoResponse]

\* variant of EwrEnter: the first delay is already multiplied by the backoff factor
EwrEnterGrown(strategy) ==
    IF 0 <= strategy.max_retries
    THEN [pc |-> "awaiting", retries |-> 0,
          delay |-> strategy.initial_delay * strategy.backoff_factor,
          attempts |-> 1, slept |-> <<>>, result |-> NoResponse]
    ELSE [EwrIdle EXCEPT !.pc = "raised"]

\* retries = 0; delay = self.initial_delay; first pass of the loop up to await func()
EwrEnter(strategy) ==
    IF 0 <= strategy.max_retries
    THEN [pc |-> "awaiting", retries |-> 0, delay |-> strategy.initial_delay,
          attempts |-> 1, slept |-> <<>>, result |-> NoResponse]
    ELSE [EwrIdle EXCEPT !.pc = "raised"]

\* variant of EwrOnOutcome: gives up one attempt early (>= for >)
EwrOnOutcomeEarly(strategy, frame, outcome) ==
    IF ~outcome.raises
    THEN [frame EXCEPT !.pc = "returned", !.result = outcome]
    ELSE IF frame.retries + 1 >= strategy.max_retries
         THEN [frame EXCEPT !.pc = "raised", !.retries = @ + 1, !.result = outcome]
         ELSE [frame EXCEPT !.pc = "sleeping", !.retries = @ + 1,
                            !.slept = Append(@, frame.delay)]

\* the awaited func() finished with outcome: return it, or count the failure and
\* either re-raise or go to sleep for delay
EwrOnOutcome(strategy, frame, outcome) ==
    IF ~outcome.raises
    THEN [frame EXCEPT !.pc = "returned", !.result = outcome]
    ELSE IF frame.retries + 1 > strategy.max_retries
         THEN [frame EXCEPT !.pc = "raised", !.retries = @ + 1, !.result = outcome]
         ELSE [frame EXCEPT !.pc = "sleeping", !.retries = @ + 1,
                            !.slept = Append(@, frame.delay)]

\* variant of EwrOnWake: the delay grows by addition instead of multiplication
EwrOnWakeAdditive(strategy, frame) ==
    LET grown == frame.delay + strategy.backoff_factor IN
    IF frame.retries <= strategy.max_retries
    THEN [frame EXCEPT !.pc = "awaiting", !.delay = grown, !.attempts = @ + 1]
    ELSE [frame EXCEPT !.pc = "raised", !.delay = grown]

\* asyncio.sleep(delay) is over: delay *= backoff_factor, then the loop test and func()
EwrOnWake(strategy, frame) ==
    LET grown == frame.delay * strategy.backoff_factor IN
    IF frame.retries <= strategy.max_retries
    THEN [frame EXCEPT !.pc = "awaiting", !.delay = grown, !.attempts = @ + 1]
    ELSE [frame EXCEPT !.pc = "raised", !.delay = grown]

EwrFinished(frame) == frame.pc \in {"returned", "raised"}

(***************************************************************************)
(* EmptyResponseHandler.handle_empty_response                              *)
(***************************************************************************)
HerIdle ==
    [pc |-> "idle", retries |-> 0, calls |-> 0, slept |-> <<>>,
     success |-> FALSE, response |-> NoResponse]

\* retries = 0 and the loop test; pc "calling" means api_call_func is being awaited
HerEnter(handler) ==
    IF 0 < handler.max_retries
    THEN [HerIdle EXCEPT !.pc = "calling", !.calls = 1]
    ELSE [HerIdle EXCEPT !.pc = "done"]

\* variant of HerOnResult: the sleep grows with the attempt number
HerOnResultGrowing(handler, frame, call) ==
    IF call.pc = "returned" /\ ResponseUsable(call.result)
    THEN [frame EXCEPT !.pc = "done", !.success = TRUE, !.response = call.result]
    ELSE IF frame.retries + 1 >= handler.max_retries
         THEN [frame EXCEPT !.pc = "done", !.retries = @ + 1,
                            !.success = FALSE, !.response = NoResponse]
         ELSE [frame EXCEPT !.pc = "sleeping", !.retries = @ + 1,
                            !.slept = Append(@, handler.delay_between_retries
                                                    * (frame.retries + 1))]

\* variant of HerOnResult: gives up one attempt early
HerOnResultEarly(handler, frame, call) ==
    IF call.pc = "returned" /\ ResponseUsable(call.result)
    THEN [frame EXCEPT !.pc = "done", !.success = TRUE, !.response = call.result]
    ELSE IF frame.retries + 2 >= handler.max_retries
         THEN [frame EXCEPT !.pc = "done", !.retries = @ + 1,
                            !.success = FALSE, !.response = NoResponse]
         ELSE [frame EXCEPT !.pc = "sleeping", !.retries = @ + 1,
                            !.slept = Append(@, handler.delay_between_retries)]

\* the awaited api_call_func finished (frame call of execute_with_retry): return
\* (True, response) for a usable response; otherwise count the attempt and either give
\* up with (False, None) or sleep the fixed delay
HerOnResult(handler, frame, call) ==
    IF call.pc = "returned" /\ ResponseUsable(call.result)
    THEN [frame EXCEPT !.pc = "done", !.success = TRUE, !.response = call.result]
    ELSE IF frame.retries + 1 >= handler.max_retries
         THEN [frame EXCEPT !.pc = "done", !.retries = @ + 1,
                            !.success = FALSE, !.response = NoResponse]
         ELSE [frame EXCEPT !.pc = "sleeping", !.retries = @ + 1,
                            !.slept = Append(@, handler.delay_between_retries)]

\* asyncio.sleep(delay_between_retries) is over: the loop test, then api_call_func again
HerOnWake(handler, frame) ==
    IF frame.retries < handler.max_retries
    THEN [frame EXCEPT !.pc = "calling", !.calls = @ + 1]
    ELSE [frame EXCEPT !.pc = "done", !.success = FALSE, !.response = NoResponse]

(***************************************************************************)
(* JSON values.  A field value is [ty, v, n]: a string with text v, an     *)
(* object of shape v ("" is the empty object {}) whose number n is         *)
(* total_rows for dynamics and len(internal) for links, a list of length   *)
(* n, or null.  A document is a dict (items: key -> field value), a list   *)
(* or None.                                                                *)
(***************************************************************************)
Str(text) == [ty |-> "str", v |-> text, n |-> 0]
Obj(shape, number) == [ty |-> "obj", v |-> shape, n |-> number]
List(length) == [ty |-> "list", v |-> "", n |-> length]
Null == [ty |-> "null", v |-> "", n |-> 0]

\* Python truthiness of a field value
Truthy(val) ==
    CASE val.ty = "str" -> val.v # ""
      [] val.ty = "obj" -> val.v # ""
      [] val.ty = "list" -> val.n > 0
      [] OTHER -> FALSE

NoItems == [k \in {} |-> Null]
JDict(items) == [ty |-> "dict", items |-> items, n |-> 0]
JList(length) == [ty |-> "list", items |-> NoItems, n |-> length]
JNone == [ty |-> "none", items |-> NoItems, n |-> 0]

IsDict(doc) == doc.ty = "dict"
Has(doc, key) == key \in DOMAIN doc.items
\* not result
DocTruthy(doc) ==
    CASE doc.ty = "dict" -> DOMAIN doc.items # {}
      [] doc.ty = "list" -> doc.n > 0
      [] OTHER -> FALSE

Fields ==
    {"title", "summary", "period_data", "dynamics", "factors", "links",
     "completed_tasks", "pending_tasks"}

\* the token "key": value of a JSON text, for the values a model answer carries
ItemVal(key) ==
    CASE key = "title" -> Str("T")
      [] key = "summary" -> Str("S")
      [] key = "period_data" -> Obj("period_data", 0)
      [] key = "dynamics" -> Obj("dynamics", 0)
      [] key = "factors" -> Obj("factors", 0)
      [] key = "links" -> Obj("links", 0)
      [] key = "links:list" -> List(0)
      [] key = "completed_tasks" -> List(1)
      [] key = "pending_tasks" -> List(1)
      [] OTHER -> Null

\* the item tokens of a JSON text: "links:list" is the item "links": [], a links value
\* that is no object with an internal list
JsonItems == Fields \cup {"links:list"}
KeyOf(tok) == IF tok = "links:list" THEN "links" ELSE tok

\* a single-quoted item, 'key': 'value', which json.loads rejects
Quoted(key) ==
    CASE key = "title" -> "'title'"
      [] key = "summary" -> "'summary'"
      [] OTHER -> key
QuotedItems == {Quoted(k) : k \in {"title", "summary"}}
Unquote(tok) == IF tok \in QuotedItems THEN CHOOSE k \in Fields : Quoted(k) = tok ELSE tok

(***************************************************************************)
(* json.loads on token texts: None, a list, or an object of items.         *)
(***************************************************************************)
RECURSIVE lstrip(_)
lstrip(s) == IF Len(s) > 0 /\ Head(s) = " " THEN lstrip(Tail(s)) ELSE s
RECURSIVE rstrip(_)
rstrip(s) ==
    IF Len(s) > 0 /\ s[Len(s)] = " " THEN rstrip(SubSeq(s, 1, Len(s) - 1)) ELSE s
strip(s) == rstrip(lstrip(s))

DecodeError == [ok |-> FALSE, value |-> JNone]
Decoded(doc) == [ok |-> TRUE, value |-> doc]

json_loads(text) ==
    LET t == strip(text)
        inner == SubSeq(t, 2, Len(t) - 1)
        keys == {inner[k] : k \in 1..Len(inner)} \ {" "}
    IN  IF t = <<"null">> THEN Decoded(JNone)
        ELSE IF t = <<"[1]">> THEN Decoded(JList(1))
        ELSE IF Len(t) >= 2 /\ t[1] = "{" /\ t[Len(t)] = "}" /\ keys \subseteq JsonItems
        THEN Decoded(JDict([k \in {KeyOf(tok) : tok \in keys} |->
                              ItemVal(CHOOSE tok \in keys : KeyOf(tok) = k)]))
        ELSE DecodeError

\* str.find / str.rfind of one token, 0 when absent (positions count from 1)
find(text, tok) ==
    IF \E k \in 1..Len(text) : text[k] = tok
    THEN CHOOSE k \in 1..Len(text) :
            text[k] = tok /\ \A m \in 1..(k - 1) : text[m] # tok
    ELSE 0
rfind(text, tok) ==
    IF \E k \in 1..Len(text) : text[k] = tok
    THEN CHOOSE k \in 1..Len(text) :
            text[k] = tok /\ \A m \in (k + 1)..Len(text) : text[m] # tok
    ELSE 0

\* position of the first token at or after from that is not whitespace
SkipSpace(text, from) ==
    IF \E k \in from..Len(text) : text[k] # " "
    THEN CHOOSE k \in from..Len(text) :
            text[k] # " " /\ \A m \in from..(k - 1) : text[m] = " "
    ELSE Len(text) + 1
At(text, k) == IF k \in 1..Len(text) THEN text[k] ELSE ""

NotFound == [found |-> FALSE, text |-> <<>>]
Found(text) == [found |-> TRUE, text |-> text]

\* JSONResponseFormatter.extract_json_from_text: the first fenced block
\* fence (json)? { ... } fence, else the span from the first { to the last }
extract_json_from_text(text) ==
    LET open(p) == SkipSpace(text, IF At(text, p + 1) = "json" THEN p + 2 ELSE p + 1)
        closes(p, r) ==
            /\ r > open(p)
            /\ text[r] = "}"
            /\ At(text, SkipSpace(text, r + 1)) = "fence"
        fenced(p) ==
            /\ text[p] = "fence"
            /\ At(text, open(p)) = "{"
            /\ \E r \in 1..Len(text) : closes(p, r)
        start_idx == find(text, "{")
        end_idx == rfind(text, "}")
    IN  IF Len(text) = 0 THEN NotFound
        ELSE IF \E p \in 1..Len(text) : fenced(p)
        THEN LET p == CHOOSE q \in 1..Len(text) :
                          fenced(q) /\ \A m \in 1..(q - 1) : ~fenced(m)
                 r == CHOOSE q \in 1..Len(text) :
                          closes(p, q) /\ \A m \in 1..(q - 1) : ~closes(p, m)
             IN  Found(SubSeq(text, open(p), r))
        ELSE IF start_idx # 0 /\ end_idx # 0 /\ start_idx < end_idx
        THEN Found(SubSeq(text, start_idx, end_idx))
        ELSE NotFound

\* JSONResponseFormatter.fix_json_string: "{}" for the empty string, single quotes
\* turned into double quotes
fix_json_string(json_str) ==
    IF Len(json_str) = 0 THEN <<"{", "}">>
    ELSE [k \in 1..Len(json_str) |-> Unquote(json_str[k])]

\* JSONResponseFormatter.create_fallback_response for a text without section headers
create_fallback_response(raw_content, error_message) ==
    LET base == [k \in Fields |->
                   CASE k = "title" -> Str("Rezultaty analiza")
                     [] k = "summary" ->
                          IF Len(raw_content) > 0 THEN Str("raw_content")
                          ELSE Str("Ne udalos poluchit rezultaty analiza")
                     [] k = "period_data" -> Obj("period_data", 0)
                     [] k = "dynamics" -> Obj("dynamics", 0)
                     [] k = "factors" -> Obj("factors", 0)
                     [] k = "links" -> Obj("links", 0)
                     [] OTHER -> List(0)]
    IN  JDict(IF error_message # ""
              THEN [k \in Fields \cup {"error"} |->
                      IF k = "error" THEN Str(error_message) ELSE base[k]]
              ELSE base)

\* EmptyResponseHandler.generate_default_response
generate_default_response(analysis_type) ==
    LET name == CASE analysis_type = "trends" -> "trendov"
                  [] analysis_type = "competitors" -> "konkurentov"
                  [] OTHER -> "dannyh"
    IN  JDict([k \in Fields |->
                 CASE k = "title" -> Str(name)
                   [] k = "summary" -> Str("ne udalos vypolnit")
                   [] k = "period_data" -> Obj("period_data", 0)
                   [] k = "dynamics" -> Obj("dynamics", 0)
                   [] k = "factors" -> Obj("factors", 0)
                   [] k = "links" -> Obj("links", 0)
                   [] k = "completed_tasks" -> List(1)
                   [] OTHER -> List(3)])

\* JSONResponseFormatter.parse_json_safely: {} for an empty string and for a string
\* that does not parse after fix_json_string either
parse_json_safely(json_str) ==
    LET direct == json_loads(json_str)
        fixed == json_loads(fix_json_string(json_str))
    IN  IF Len(json_str) = 0 THEN JDict(NoItems)
        ELSE IF direct.ok THEN direct.value
        ELSE IF fixed.ok THEN fixed.value
        ELSE JDict(NoItems)

\* variant of parse_response: the step that parses the extracted text is left out
parse_responseNoExtract(raw_content) ==
    LET direct == json_loads(raw_content)
        start_idx == find(raw_content, "{")
        end_idx == rfind(raw_content, "}")
        fixed == json_loads(fix_json_string(SubSeq(raw_content, start_idx, end_idx)))
    IN  IF direct.ok THEN direct.value
        ELSE IF start_idx # 0 /\ end_idx # 0
        THEN IF fixed.ok THEN fixed.value
             ELSE create_fallback_response(raw_content, "Failed to fix JSON")
        ELSE create_fallback_response(raw_content, "Could not find JSON in response")

\* the parsing steps of analyze_batch and synthesize_final_analysis on content that is
\* not blank
parse_response(raw_content) ==
    LET direct == json_loads(raw_content)
        extracted == extract_json_from_text(raw_content)
        second == json_loads(extracted.text)
        start_idx == find(raw_content, "{")
        end_idx == rfind(raw_content, "}")
        fixed == json_loads(fix_json_string(SubSeq(raw_content, start_idx, end_idx)))
    IN  IF direct.ok THEN direct.value
        ELSE IF extracted.found /\ second.ok THEN second.value
        ELSE IF start_idx # 0 /\ end_idx # 0
        THEN IF fixed.ok THEN fixed.value
             ELSE create_fallback_response(raw_content, "Failed to fix JSON")
        ELSE create_fallback_response(raw_content, "Could not find JSON in response")

(***************************************************************************)
(* Datasets and token estimates.  A dataset is the dict handed to          *)
(* analyze_data: rows[k] is the token count of the JSON of row k of        *)
(* data["data"], has_data tells whether the key "data" is present, extra   *)
(* is the token count of the other keys, digest gives the token count of   *)
(* the summary of its rows at each level of reduction (it depends on the   *)
(* columns, not on the number of rows).                                    *)
(***************************************************************************)
MaxApiCalls == 3
MaxTokensPerBatch == 3000
BatchTokenCeiling == 3500
SynthTokenCeiling == 3000

PromptTokens == 800         \* tokens of the system and user prompt around the payload
ItemTokens == 150           \* tokens of one field of a normalized batch result

RECURSIVE SumSeq(_)
SumSeq(q) == IF Len(q) = 0 THEN 0 ELSE Head(q) + SumSeq(Tail(q))

Range(a, b) == [k \in 1..(b - a + 1) |-> a + k - 1]

\* DataPreprocessor.normalize_data on a batch of rows: the summary, reduced once or
\* twice while its token count exceeds max_tokens
normalize_data(digest, max_tokens) ==
    IF digest.full <= max_tokens THEN "full"
    ELSE IF digest.reduced <= max_tokens THEN "reduced"
    ELSE "minimal"

\* the keys of the summary at a level of reduction, for records with numeric columns,
\* a time series and categories: the first reduction deletes time_series and
\* categorical_data; the second rebuilds the summary from three keys and only then
\* asks whether it holds key_metrics
SummaryKeys(level) ==
    LET full == {"rows_count", "columns_count", "columns", "missing_values",
                 "key_metrics", "time_series", "categorical_data"}
        reduced == full \ {"time_series", "categorical_data"}
        summary == {"rows_count", "columns_count", "columns"}
    IN  CASE level = "full" -> full
          [] level = "reduced" -> reduced
          [] OTHER -> IF "key_metrics" \in summary THEN summary \cup {"key_metrics"}
                      ELSE summary

\* DataPreprocessor.summarize_data: the summary is empty without records
summarize_data(doc) == IF doc.has_data THEN "summary" ELSE ""

ReductionSteps(level) ==
    CASE level = "full" -> 0
      [] level = "reduced" -> 1
      [] OTHER -> 2

\* variant of Normalized: a digest is reduced by one more level
NormalizedFurther(doc, max_tokens) ==
    IF doc.form = "digest"
    THEN [doc |-> [doc EXCEPT !.level = IF @ = "full" THEN "reduced" ELSE "minimal",
                              !.size = IF doc.level = "full" THEN doc.sizes.reduced
                                       ELSE doc.sizes.minimal],
          steps |-> 1]
    ELSE IF summarize_data(doc) = "" THEN [doc |-> doc, steps |-> 0]
    ELSE LET level == normalize_data(doc.sizes, max_tokens)
         IN  [doc |-> [form |-> "digest", has_data |-> FALSE, size |-> doc.sizes[level],
                       sizes |-> doc.sizes, level |-> level],
              steps |-> ReductionSteps(level)]

\* DataPreprocessor(max_tokens).normalize_data(doc), with the number of reductions
\* it made: a doc without records comes back as it is, any other is replaced by its
\* summary, which has no key "data"
Normalized(doc, max_tokens) ==
    IF summarize_data(doc) = "" THEN [doc |-> doc, steps |-> 0]
    ELSE LET level == normalize_data(doc.sizes, max_tokens)
         IN  [doc |-> [form |-> "digest", has_data |-> FALSE, size |-> doc.sizes[level],
                       sizes |-> doc.sizes, level |-> level],
              steps |-> ReductionSteps(level)]

DatasetBatch(data) ==
    [form |-> "dataset", rows |-> Range(1, Len(data.rows)), has_data |-> data.has_data,
     level |-> "", batch_index |-> -1, merged_from |-> <<>>]

DigestBatch(data, group) ==
    [form |-> "digest", rows |-> group, has_data |-> FALSE,
     level |-> normalize_data(data.digest, MaxTokensPerBatch),
     batch_index |-> -1, merged_from |-> <<>>]

\* variant of SplitRows: the row that seals a batch is lost
RECURSIVE SplitRowsDropping(_, _, _, _, _)
SplitRowsDropping(rows, k, current, current_tokens, groups) ==
    IF k > Len(rows)
    THEN IF Len(current) > 0 THEN Append(groups, current) ELSE groups
    ELSE IF current_tokens + rows[k] > MaxTokensPerBatch /\ Len(current) > 0
         THEN SplitRowsDropping(rows, k + 1, <<>>, 0, Append(groups, current))
         ELSE SplitRowsDropping(rows, k + 1, Append(current, k), current_tokens + rows[k],
                                groups)

\* variant of SplitRows: a batch is sealed as soon as it is full (>= for >)
RECURSIVE SplitRowsEager(_, _, _, _, _)
SplitRowsEager(rows, k, current, current_tokens, groups) ==
    IF k > Len(rows)
    THEN IF Len(current) > 0 THEN Append(groups, current) ELSE groups
    ELSE IF current_tokens + rows[k] >= MaxTokensPerBatch /\ Len(current) > 0
         THEN SplitRowsEager(rows, k + 1, <<k>>, rows[k], Append(groups, current))
         ELSE SplitRowsEager(rows, k + 1, Append(current, k), current_tokens + rows[k],
                             groups)

\* the loop of consolidate_data_by_token_limit over the rows from k on: seal the
\* current batch when the next row would exceed the budget and it is not empty
RECURSIVE SplitRows(_, _, _, _, _)
SplitRows(rows, k, current, current_tokens, groups) ==
    IF k > Len(rows)
    THEN IF Len(current) > 0 THEN Append(groups, current) ELSE groups
    ELSE IF current_tokens + rows[k] > MaxTokensPerBatch /\ Len(current) > 0
         THEN SplitRows(rows, k + 1, <<k>>, rows[k], Append(groups, current))
         ELSE SplitRows(rows, k + 1, Append(current, k), current_tokens + rows[k], groups)

consolidate_data_by_token_limit(data) ==
    IF ~data.has_data \/ Len(data.rows) = 0 THEN <<DatasetBatch(data)>>
    ELSE LET groups == SplitRows(data.rows, 1, <<>>, 0, <<>>)
         IN  [g \in 1..Len(groups) |-> DigestBatch(data, groups[g])]

\* variant of MergeBatches: a range takes in the first batch of the next one
MergeBatchesOverlapping(batches) ==
    LET n == Len(batches)
        q == n \div MaxApiCalls
        batch_size == IF q > 1 THEN q ELSE 1
        count == (n + batch_size - 1) \div batch_size
    IN  [m \in 1..count |->
            LET i == (m - 1) * batch_size
                last == IF i + batch_size < n THEN i + batch_size + 1 ELSE n
            IN  [batches[i + 1] EXCEPT !.batch_index = m - 1,
                                       !.merged_from = Range(i, last - 1)]]

\* the merge of consolidate_data: every batch_size-th batch stands for its range
MergeBatches(batches) ==
    LET n == Len(batches)
        q == n \div MaxApiCalls
        batch_size == IF q > 1 THEN q ELSE 1
        count == (n + batch_size - 1) \div batch_size
    IN  [m \in 1..count |->
            LET i == (m - 1) * batch_size
                last == IF i + batch_size < n THEN i + batch_size ELSE n
            IN  [batches[i + 1] EXCEPT !.batch_index = m - 1,
                                       !.merged_from = Range(i, last - 1)]]

\* variant of consolidate_data: the test of the record count against max_api_calls
\* left out
consolidate_dataSplitting(data) ==
    IF ~data.has_data \/ Len(data.rows) = 0 THEN <<DatasetBatch(data)>>
    ELSE LET batches_by_token_limit == consolidate_data_by_token_limit(data)
         IN  IF Len(batches_by_token_limit) > MaxApiCalls
             THEN MergeBatches(batches_by_token_limit)
             ELSE batches_by_token_limit

consolidate_data(data) ==
    IF ~data.has_data \/ Len(data.rows) = 0 THEN <<DatasetBatch(data)>>
    ELSE IF Len(data.rows) <= MaxApiCalls THEN <<DatasetBatch(data)>>
    ELSE LET batches_by_token_limit == consolidate_data_by_token_limit(data)
         IN  IF Len(batches_by_token_limit) > MaxApiCalls
             THEN MergeBatches(batches_by_token_limit)
             ELSE batches_by_token_limit

\* token count of json.dumps(batch)
RowTokens(data, batch) == SumSeq([k \in 1..Len(batch.rows) |-> data.rows[batch.rows[k]]])
ContentTokens(data, batch) ==
    IF batch.form = "dataset"
    THEN (IF batch.has_data THEN RowTokens(data, batch) ELSE 0) + data.extra
    ELSE data.digest[batch.level]

\* count_messages_tokens of the two messages of analyze_batch
BatchMessageTokens(data, batch) == PromptTokens + ContentTokens(data, batch)

\* analyze_batch, over the ceiling: del batch["data"], time_series and categorical_data
\* dropped, key_metrics cut to three (a full summary shrinks to its reduced size)
ShrinkBatch(batch) ==
    [batch EXCEPT !.has_data = FALSE,
                  !.level = IF @ = "full" THEN "reduced" ELSE @]

PrepareBatch(data, batch) ==
    IF BatchMessageTokens(data, batch) > BatchTokenCeiling THEN ShrinkBatch(batch) ELSE batch

(***************************************************************************)
(* TwoStageAnalyzer: what the code does with the answer of a model call.   *)
(***************************************************************************)
CheapModel == "gpt-3.5-turbo"
ExpensiveModel == "ft:gpt-4.1-2025-04-14:expovision:expovision:BQ4JVN7C"

\* variant of call_api_model: the batches use the model of the synthesis
call_api_modelSame(stage) == ExpensiveModel

\* the model named by call_api of the stage
call_api_model(stage) == IF stage = "Synthesizing" THEN ExpensiveModel ELSE CheapModel

\* variant of StageResult: a failed call gives the empty dict
StageResultEmpty(guard, analysis_type) ==
    IF ~guard.success THEN JDict(NoItems)
    ELSE IF ~ContentPresent(guard.response)
    THEN JDict(NoItems)
    ELSE parse_response(guard.response.content)

\* analyze_batch / synthesize_final_analysis after handle_empty_response returned
StageResult(guard, analysis_type) ==
    IF ~guard.success THEN generate_default_response(analysis_type)
    ELSE IF ~ContentPresent(guard.response)
    THEN generate_default_response(analysis_type)
    ELSE parse_response(guard.response.content)

\* one entry of normalized_results, built from batch result number i (from 0)
NormalizedEntry(i, result) ==
    LET kept == {k \in {"period_data", "dynamics", "factors", "completed_tasks",
                        "pending_tasks"} : Has(result, k) /\ Truthy(result.items[k])}
    IN  [batch_index |-> i,
         items |-> [k \in {"title", "summary"} \cup kept |->
                      IF Has(result, k) THEN result.items[k]
                      ELSE IF k = "title" THEN Str("Rezultaty analiza batcha")
                      ELSE Str("")]]

\* the positions of the batch results that are not skipped as empty
RECURSIVE KeptPositions(_, _)
KeptPositions(batch_results, i) ==
    IF i > Len(batch_results) THEN <<>>
    ELSE (IF DocTruthy(batch_results[i]) THEN <<i>> ELSE <<>>)
         \o KeptPositions(batch_results, i + 1)

\* result.get raises AttributeError on a result that is no dict
NormalizeRaises(batch_results) ==
    \E i \in 1..Len(batch_results) :
        DocTruthy(batch_results[i]) /\ ~IsDict(batch_results[i])

\* variant of Normalize: batch_index is the position among the kept results
NormalizeRenumbered(batch_results) ==
    LET kept == KeptPositions(batch_results, 1)
    IN  [k \in 1..Len(kept) |-> NormalizedEntry(k - 1, batch_results[kept[k]])]

\* the loop over enumerate(batch_results), when no result raises
Normalize(batch_results) ==
    LET kept == KeptPositions(batch_results, 1)
    IN  [k \in 1..Len(kept) |-> NormalizedEntry(kept[k] - 1, batch_results[kept[k]])]

EntryTokens(entry) == ItemTokens * Cardinality(DOMAIN entry.items)
SynthMessageTokens(entries) ==
    PromptTokens + SumSeq([k \in 1..Len(entries) |-> EntryTokens(entries[k])])

\* synthesize_final_analysis, over the ceiling: the first two entries, dynamics and
\* factors longer than 100 characters replaced by their placeholders
ShrinkEntry(entry) ==
    [entry EXCEPT !.items =
        [k \in DOMAIN @ |->
            IF k \in {"dynamics", "factors"} THEN Obj(@[k].v, 0) ELSE @[k]]]

ShrinkEntries(entries) ==
    LET max_batches == IF Len(entries) < 2 THEN Len(entries) ELSE 2
    IN  [k \in 1..max_batches |-> ShrinkEntry(entries[k])]

\* the same branch on the lengths it tests: an entry here is the number of characters
\* of its summary and of the JSON of its period_data, dynamics and factors
SummaryLimit == 200
FieldLimit == 100
EllipsisLength == 3
PeriodPlaceholderLength == 44
DynamicsPlaceholderLength == 118
FactorsPlaceholderLength == 65

\* result["summary"][:200] + "..."
ShortenSummary(length) ==
    IF length > SummaryLimit THEN SummaryLimit + EllipsisLength ELSE length

ShrinkLengths(entry) ==
    [summary |-> ShortenSummary(entry.summary),
     period_data |-> IF entry.period_data > FieldLimit THEN PeriodPlaceholderLength
                     ELSE entry.period_data,
     dynamics |-> IF entry.dynamics > FieldLimit THEN DynamicsPlaceholderLength
                  ELSE entry.dynamics,
     factors |-> IF entry.factors > FieldLimit THEN FactorsPlaceholderLength
                 ELSE entry.factors,
     batch_index |-> entry.batch_index]

ShrinkPayload(entries) ==
    LET max_batches == IF Len(entries) < 2 THEN Len(entries) ELSE 2
    IN  [k \in 1..max_batches |-> ShrinkLengths(entries[k])]

PrepareSynthesis(entries) ==
    IF SynthMessageTokens(entries) > SynthTokenCeiling THEN ShrinkEntries(entries)
    ELSE entries

(***************************************************************************)
(* The provider: what a request (or any wrapped function) can answer.      *)
(***************************************************************************)
FullText ==
    <<"{", "title", "summary", "period_data", "dynamics", "factors", "links",
      "completed_tasks", "pending_tasks", "}">>
LinksListText == <<"{", "title", "summary", "links:list", "}">>
Texts == {FullText, <<"{", "}">>, <<"[1]">>, <<"w">>}

Outcomes ==
    {Raises, Response(FALSE, TRUE, <<>>), Response(TRUE, TRUE, <<>>),
     Response(TRUE, FALSE, <<>>), Response(TRUE, FALSE, <<" ">>)}
    \cup {Response(TRUE, FALSE, t) : t \in Texts}

(***************************************************************************)
(* The facade and analyze_data.  S is the program state an action works    *)
(* on: [data, run, ewr, her, request, facade].                             *)
(***************************************************************************)
FacadeOps == {"analyze_raw_data", "analyze_trends", "analyze_competitors", "generate_report"}

AnalysisType(op) ==
    CASE op = "analyze_trends" -> "trends"
      [] op = "analyze_competitors" -> "competitors"
      [] OTHER -> "metrics"

NoRequest == [model |-> "", response_format |-> FALSE, tokens |-> 0]
NoData == [rows |-> <<>>, has_data |-> FALSE, extra |-> 0,
           digest |-> [full |-> 0, reduced |-> 0, minimal |-> 0]]
RunIdle ==
    [pc |-> "idle", analysis_type |-> "", batches |-> <<>>, i |-> 0,
     batch_results |-> <<>>, answers |-> <<>>, normalized_results |-> <<>>,
     final_result |-> JNone, trace |-> <<>>]
\* given: the dict handed to analyze_data, as it was at the call
FacadeIdle ==
    [pc |-> "idle", trends_analysis |-> FALSE, competitors_analysis |-> FALSE,
     result |-> JNone, given |-> NoData]

Visit(state, i) == [state |-> state, i |-> i]

\* ModelCompatibilityChecker.JSON_FORMAT_SUPPORTED_MODELS
JSON_FORMAT_SUPPORTED_MODELS ==
    {"gpt-4-turbo", "gpt-4-0125-preview", ExpensiveModel, "gpt-4-1106-preview",
     "gpt-4-vision-preview", "gpt-3.5-turbo-0125", "gpt-3.5-turbo-1106"}

\* the model names a caller of chat_completion may pass
ModelNames ==
    JSON_FORMAT_SUPPORTED_MODELS
    \cup {CheapModel, "gpt-4", "gpt-4o", "gpt-4-turbo-preview", "gpt-4-turbo-2024-04-09",
          "gpt-3.5-turbo-16k"}

\* a model name as the sequence of its parts between the hyphens
Parts(model) ==
    CASE model = "gpt-4-turbo" -> <<"gpt", "4", "turbo">>
      [] model = "gpt-4-0125-preview" -> <<"gpt", "4", "0125", "preview">>
      [] model = ExpensiveModel ->
            <<"ft:gpt", "4.1", "2025", "04", "14:expovision:expovision:BQ4JVN7C">>
      [] model = "gpt-4-1106-preview" -> <<"gpt", "4", "1106", "preview">>
      [] model = "gpt-4-vision-preview" -> <<"gpt", "4", "vision", "preview">>
      [] model = "gpt-3.5-turbo-0125" -> <<"gpt", "3.5", "turbo", "0125">>
      [] model = "gpt-3.5-turbo-1106" -> <<"gpt", "3.5", "turbo", "1106">>
      [] model = CheapModel -> <<"gpt", "3.5", "turbo">>
      [] model = "gpt-4" -> <<"gpt", "4">>
      [] model = "gpt-4o" -> <<"gpt", "4o">>
      [] model = "gpt-4-turbo-preview" -> <<"gpt", "4", "turbo", "preview">>
      [] model = "gpt-4-turbo-2024-04-09" -> <<"gpt", "4", "turbo", "2024", "04", "09">>
      [] model = "gpt-3.5-turbo-16k" -> <<"gpt", "3.5", "turbo", "16k">>

\* supported_model in model: the one string occurs somewhere inside the other
Contains(whole, part) ==
    \E i \in 0..(Len(whole) - Len(part)) : SubSeq(whole, i + 1, i + Len(part)) = part

\* ModelCompatibilityChecker.supports_json_response_format
supports_json_response_format(model) ==
    \E supported_model \in JSON_FORMAT_SUPPORTED_MODELS :
        Contains(Parts(model), Parts(supported_model))

\* call_api of the stage: the request it sends
call_api(stage) ==
    [model |-> call_api_model(stage),
     response_format |-> supports_json_response_format(call_api_model(stage))]

\* count_messages_tokens(messages) of the messages the stage sends
StageTokens(S) ==
    IF S.run.pc = "BatchAnalyzing"
    THEN BatchMessageTokens(S.data, S.run.batches[S.run.i + 1])
    ELSE SynthMessageTokens(S.run.normalized_results)

StageCeiling(stage) ==
    IF stage = "BatchAnalyzing" THEN BatchTokenCeiling ELSE SynthTokenCeiling

\* the stage the run is in sends its request
Issue(S) ==
    [S EXCEPT !.request = [model |-> call_api(S.run.pc).model,
                           response_format |-> call_api(S.run.pc).response_format,
                           tokens |-> StageTokens(S)]]

\* handle_empty_response(execute_with_retry, call_api) up to the first request
EnterGuard(S) ==
    LET guard == HerEnter(empty_response_handler)
        T == [S EXCEPT !.her = guard]
    IN  IF guard.pc = "calling"
        THEN Issue([T EXCEPT !.ewr = EwrEnter(retry_strategy)])
        ELSE T

\* the backfill of analyze_trends, analyze_competitors and generate_report; a key
\* missing or falsy gets its default, total_rows being len(data["data"])
Backfilled(S, doc) ==
    LET present(k) == Has(doc, k) /\ Truthy(doc.items[k])
        keys == DOMAIN doc.items \cup {"period_data", "dynamics", "factors", "links"}
    IN  [doc EXCEPT !.items =
            [k \in keys |->
                CASE k = "period_data" ->
                        IF present(k) /\ doc.items[k].ty # "str" THEN doc.items[k]
                        ELSE Obj("period_data", 0)
                  [] k = "dynamics" ->
                        IF present(k) THEN doc.items[k]
                        ELSE Obj("dynamics", Len(S.data.rows))
                  [] k = "factors" ->
                        IF present(k) /\ doc.items[k].ty # "str" THEN doc.items[k]
                        ELSE Obj("factors", 0)
                  [] k = "links" ->
                        IF Has(doc, k) THEN doc.items[k] ELSE Obj("links", 0)
                  [] OTHER -> doc.items[k]]]

\* the statements of the backfill that raise: item access on a result that is no
\* dict, len(data["data"]) after the key was deleted, str + a summary that is no
\* str, links.internal.append on links without a list
BackfillRaises(S, op, doc) ==
    \/ ~IsDict(doc)
    \/ /\ ~(Has(doc, "dynamics") /\ Truthy(doc.items["dynamics"]))
       /\ ~S.data.has_data
    \/ /\ op = "analyze_competitors"
       /\ Has(doc, "summary")
       /\ doc.items["summary"].ty # "str"
    \/ /\ op = "generate_report"
       /\ S.facade.trends_analysis \/ S.facade.competitors_analysis
       /\ Has(doc, "links")
       /\ ~(doc.items["links"].ty = "obj" /\ doc.items["links"].v = "links")

\* generate_report: one entry appended to links.internal per prior analysis
LinksAdded(S, op) ==
    IF op = "generate_report"
    THEN (IF S.facade.trends_analysis THEN 1 ELSE 0)
         + (IF S.facade.competitors_analysis THEN 1 ELSE 0)
    ELSE 0

\* the facade operation after analyze_raw_data returned `doc`
FacadeReturn(S, op, doc) ==
    IF op = "analyze_raw_data" THEN [S.facade EXCEPT !.pc = "returned", !.result = doc]
    ELSE IF BackfillRaises(S, op, doc) THEN [S.facade EXCEPT !.pc = "raised"]
    ELSE LET filled == Backfilled(S, doc)
         IN  [S.facade EXCEPT
                !.pc = "returned",
                !.result = [filled EXCEPT !.items["links"].n = @ + LinksAdded(S, op)]]

\* analyze_data returns `doc`
Finish(S, doc) ==
    LET T == [S EXCEPT !.run.pc = "Done", !.run.final_result = doc,
                       !.run.trace = Append(@, Visit("Done", 0))]
    IN  [T EXCEPT !.facade = FacadeReturn(T, caller, doc)]

\* synthesize_final_analysis up to its first request; an exception of the
\* normalisation is caught by analyze_data, which returns the default response
EnterSynthesis(S) ==
    LET T == [S EXCEPT !.run.pc = "Synthesizing",
                       !.run.trace = Append(@, Visit("Synthesizing", 0))]
        entries == Normalize(S.run.batch_results)
    IN  IF NormalizeRaises(S.run.batch_results)
        THEN Finish(T, generate_default_response(S.run.analysis_type))
        ELSE IF Len(entries) = 0
        THEN Finish(T, generate_default_response(S.run.analysis_type))
        ELSE EnterGuard([T EXCEPT !.run.normalized_results = PrepareSynthesis(entries)])

\* analyze_batch for batch number run.i up to its first request; the batch of a
\* dataset that was not split is the dataset object itself
EnterBatch(S) ==
    LET batch == S.run.batches[S.run.i + 1]
        prepared == PrepareBatch(S.data, batch)
    IN  EnterGuard([S EXCEPT
            !.run.pc = "BatchAnalyzing",
            !.run.trace = Append(@, Visit("BatchAnalyzing", S.run.i)),
            !.run.batches[S.run.i + 1] = prepared,
            !.data.has_data = IF batch.form = "dataset" THEN prepared.has_data ELSE @])

\* variant of MoreBatches: the loop stops one batch early
MoreBatchesShort(frame) == frame.i + 2 < Len(frame.batches)

\* the loop of analyze_data: is there a batch after batch number run.i
MoreBatches(frame) == frame.i + 1 < Len(frame.batches)

\* handle_empty_response returned inside a stage of the run
AfterGuard(S) ==
    LET result == StageResult(S.her, S.run.analysis_type)
        answer == [success |-> S.her.success, content |-> S.her.response.content]
    IN  IF S.run.pc = "BatchAnalyzing"
        THEN LET T == [S EXCEPT !.run.batch_results = Append(@, result),
                                !.run.answers = Append(@, answer)]
             IN  IF MoreBatches(S.run) THEN EnterBatch([T EXCEPT !.run.i = @ + 1])
                 ELSE EnterSynthesis(T)
        ELSE Finish(S, result)

\* analyze_data from its call to its first request
StartRun(S, analysis_type) ==
    EnterBatch([S EXCEPT !.run = [RunIdle EXCEPT
                                    !.analysis_type = analysis_type,
                                    !.batches = consolidate_data(S.data),
                                    !.trace = <<Visit("Consolidating", 0)>>]])

InRun == caller \in FacadeOps

\* the request of chat_completion(messages, model=model)
ChatRequest(model) ==
    [model |-> model, response_format |-> supports_json_response_format(model),
     tokens |-> PromptTokens]

\* chat_completion after the guard returned: the content, or the message that no
\* response could be had
ChatReturn(S) ==
    [S.facade EXCEPT
        !.pc = "returned",
        !.result = [content |-> IF S.her.success THEN S.her.response.content
                                ELSE <<"failed">>,
                    tokens |-> PromptTokens,
                    model |-> helper.given]]
Guarded == caller # "execute_with_retry"

\* run the code of the callers as far as the guard lets it; the frame of a call
\* of execute_with_retry that has ended is gone
Resume(S) ==
    LET T == IF EwrFinished(S.ewr) THEN [S EXCEPT !.ewr = EwrIdle] ELSE S
    IN  IF caller = "chat_completion"
        THEN (IF S.her.pc = "done" THEN [S EXCEPT !.facade = ChatReturn(S)] ELSE S)
        ELSE IF ~InRun THEN S
        ELSE IF T.her.pc = "done" /\ T.run.pc \in {"BatchAnalyzing", "Synthesizing"}
        THEN AfterGuard(T)
        ELSE T

Now == [data |-> dataset, run |-> analysis, ewr |-> ewr, her |-> her, request |-> request,
        facade |-> facade]

Becomes(S) ==
    /\ dataset' = S.data
    /\ analysis' = S.run
    /\ ewr' = S.ewr
    /\ her' = S.her
    /\ request' = S.request
    /\ facade' = S.facade

\* variant of Responded: the guard handles what execute_with_retry returns, not what
\* it raises
RespondedUncaught(S, outcome) ==
    LET call == EwrOnOutcome(retry_strategy, S.ewr, outcome)
        guard == IF Guarded /\ call.pc = "returned"
                 THEN HerOnResult(empty_response_handler, S.her, call)
                 ELSE S.her
    IN  Resume([S EXCEPT !.ewr = call, !.her = guard])

\* the awaited call of frame S answers with outcome; the code runs up to its next
\* suspend point
Responded(S, outcome) ==
    LET call == EwrOnOutcome(retry_strategy, S.ewr, outcome)
        guard == IF Guarded /\ EwrFinished(call)
                 THEN HerOnResult(empty_response_handler, S.her, call)
                 ELSE S.her
    IN  Resume([S EXCEPT !.ewr = call, !.her = guard])

\* the backoff sleep of frame S ends
RetryWoken(S) ==
    LET call == EwrOnWake(retry_strategy, S.ewr)
        T == [S EXCEPT !.ewr = call]
    IN  IF InRun /\ call.pc = "awaiting" THEN Issue(T) ELSE T

\* the fixed sleep of the guard of frame S ends
GuardWoken(S) ==
    LET guard == HerOnWake(empty_response_handler, S.her)
        T == [S EXCEPT !.her = guard,
                       !.ewr = IF guard.pc = "calling"
                               THEN EwrEnter(retry_strategy) ELSE @]
    IN  IF InRun /\ guard.pc = "calling" THEN Issue(T) ELSE Resume(T)

(***************************************************************************)
(* Inputs of the facade.                                                   *)
(***************************************************************************)
MaxRows == 5
MaxDatasetTokens == 12000
RowSizes == {1000, 1500, 3000}
Digests ==
    {[full |-> 600, reduced |-> 400, minimal |-> 100],
     [full |-> 2900, reduced |-> 2000, minimal |-> 300]}

\* record lists of one row size
RowSeqs ==
    {[k \in 1..n |-> size] :
        <<n, size>> \in {p \in (0..MaxRows) \X RowSizes : p[1] * p[2] <= MaxDatasetTokens}}

\* the dict a facade operation builds around its records; the facade wrappers keep
\* the metrics themselves next to the records made from them
BuildData(op, rows, digest) ==
    [rows |-> rows, has_data |-> TRUE,
     extra |-> IF op = "analyze_raw_data" THEN 0 ELSE SumSeq(rows),
     digest |-> digest]

\* the facade operation op from its call to its first provider request
Invoked(S, op, rows, digest, trends, competitors) ==
    StartRun([S EXCEPT !.data = BuildData(op, rows, digest),
                       !.facade = [FacadeIdle EXCEPT
                                     !.pc = "running",
                                     !.given = BuildData(op, rows, digest),
                                     !.trends_analysis = trends,
                                     !.competitors_analysis = competitors]],
             AnalysisType(op))

(***************************************************************************)
(* Actions.                                                                *)
(***************************************************************************)
\* the sleeps are summed up for the calls made outside a run
Timed == ~InRun

NoCall == [fn |-> "", given |-> <<>>, result |-> <<>>]

\* a direct call of retry_strategy.execute_with_retry(func)
InvokeRetry ==
    /\ caller = ""
    /\ caller' = "execute_with_retry"
    /\ ewr' = EwrEnter(retry_strategy)
    /\ sent' = IF ewr'.pc = "awaiting" THEN sent + 1 ELSE sent
    /\ UNCHANGED <<retry_strategy, empty_response_handler, her, request, dataset,
                   analysis, facade, helper, elapsed, runs>>

\* a direct call of handle_empty_response(retry_strategy.execute_with_retry, func)
InvokeGuard ==
    /\ caller = ""
    /\ caller' = "handle_empty_response"
    /\ her' = HerEnter(empty_response_handler)
    /\ ewr' = IF her'.pc = "calling" THEN EwrEnter(retry_strategy) ELSE ewr
    /\ sent' = IF ewr'.pc = "awaiting" THEN sent + 1 ELSE sent
    /\ UNCHANGED <<retry_strategy, empty_response_handler, request, dataset, analysis,
                   facade, helper, elapsed, runs>>

\* a call of chat_completion(messages, model=model), up to the first provider request
InvokeChat ==
    /\ caller = ""
    /\ caller' = "chat_completion"
    /\ \E model \in ModelNames :
        LET guard == HerEnter(empty_response_handler)
            S == [Now EXCEPT !.her = guard,
                             !.facade = [FacadeIdle EXCEPT !.pc = "running"]]
        IN  /\ helper' = [fn |-> "chat_completion", given |-> model, result |-> <<>>]
            /\ Becomes(IF guard.pc = "calling"
                       THEN [S EXCEPT !.ewr = EwrEnter(retry_strategy),
                                      !.request = ChatRequest(model)]
                       ELSE [S EXCEPT !.facade.pc = "returned",
                                      !.facade.result =
                                          [content |-> <<"failed">>,
                                           tokens |-> PromptTokens, model |-> model]])
    /\ sent' = IF ewr'.pc = "awaiting" THEN sent + 1 ELSE sent
    /\ UNCHANGED <<retry_strategy, empty_response_handler, elapsed, runs>>

\* a call of a facade operation, up to the first provider request
InvokeFacade ==
    /\ caller = ""
    /\ \E op \in FacadeOps, rows \in RowSeqs, digest \in Digests,
          trends \in BOOLEAN, competitors \in BOOLEAN :
        /\ op # "generate_report" => ~trends /\ ~competitors
        /\ Len(rows) <= MaxApiCalls => digest = CHOOSE d \in Digests : d.full = 600
        /\ caller' = op
        /\ Becomes(Invoked(Now, op, rows, digest, trends, competitors))
    /\ UNCHANGED <<retry_strategy, empty_response_handler, helper, elapsed, sent, runs>>

\* the awaited call answers; the code runs up to its next suspend point
ProviderResponds ==
    /\ ewr.pc = "awaiting"
    /\ \E outcome \in Outcomes : Becomes(Responded(Now, outcome))
    /\ UNCHANGED <<caller, retry_strategy, empty_response_handler, helper, elapsed, sent,
                   runs>>

\* the backoff sleep of execute_with_retry ends: the next attempt is issued
RetryWake ==
    /\ ewr.pc = "sleeping"
    /\ Becomes(RetryWoken(Now))
    /\ elapsed' = IF Timed THEN elapsed + ewr.delay ELSE elapsed
    /\ sent' = IF Timed /\ ewr'.pc = "awaiting" THEN sent + 1 ELSE sent
    /\ UNCHANGED <<caller, retry_strategy, empty_response_handler, helper, runs>>

\* the fixed sleep of handle_empty_response ends: execute_with_retry is called again
GuardWake ==
    /\ her.pc = "sleeping"
    /\ Becomes(GuardWoken(Now))
    /\ elapsed' = IF Timed THEN elapsed + empty_response_handler.delay_between_retries
                  ELSE elapsed
    /\ sent' = IF Timed /\ ewr'.pc = "awaiting" THEN sent + 1 ELSE sent
    /\ UNCHANGED <<caller, retry_strategy, empty_response_handler, helper, runs>>

(***************************************************************************)
(* Direct calls of the helper functions.                                   *)
(***************************************************************************)
MaxHelperRows == 6
HelperRowSizes == {1000, 2000, 3000, 4000}
HelperDatasets ==
    {[rows |-> rows, has_data |-> TRUE, extra |-> 0,
      digest |-> [full |-> 600, reduced |-> 400, minimal |-> 100]] :
        rows \in UNION {[1..n -> HelperRowSizes] : n \in 0..MaxHelperRows}}

\* ConsolidatedDataProcessor().consolidate_data(data)
CallConsolidate ==
    /\ caller = ""
    /\ \E data \in HelperDatasets :
          helper' = [fn |-> "consolidate_data", given |-> data,
                     result |-> consolidate_data(data)]
    /\ caller' = "consolidate_data"
    /\ UNCHANGED <<retry_strategy, empty_response_handler, ewr, her, request, dataset,
                   analysis, facade, elapsed, sent, runs>>

\* ConsolidatedDataProcessor().consolidate_data_by_token_limit(data)
CallSplit ==
    /\ caller = ""
    /\ \E data \in HelperDatasets :
          helper' = [fn |-> "consolidate_data_by_token_limit", given |-> data,
                     result |-> consolidate_data_by_token_limit(data)]
    /\ caller' = "consolidate_data_by_token_limit"
    /\ UNCHANGED <<retry_strategy, empty_response_handler, ewr, her, request, dataset,
                   analysis, facade, elapsed, sent, runs>>

\* the docs handed to normalize_data: size is the token count of the doc as given,
\* sizes those of its summary at the three levels of reduction
HelperDocs ==
    [form : {"dataset"}, has_data : BOOLEAN, size : {50, 5000}, level : {""},
     sizes : {[full |-> 600, reduced |-> 400, minimal |-> 100],
              [full |-> 2900, reduced |-> 2000, minimal |-> 300],
              [full |-> 3600, reduced |-> 2000, minimal |-> 300],
              [full |-> 3600, reduced |-> 3200, minimal |-> 300],
              [full |-> 9000, reduced |-> 8000, minimal |-> 4000]}]
HelperBudgets == {200, 3000}

\* DataPreprocessor(max_tokens).normalize_data(doc)
CallNormalize ==
    /\ caller = ""
    /\ \E doc \in HelperDocs, max_tokens \in HelperBudgets :
          helper' = [fn |-> "normalize_data",
                     given |-> [doc |-> doc, max_tokens |-> max_tokens],
                     result |-> [once |-> Normalized(doc, max_tokens), twice |-> <<>>]]
    /\ caller' = "normalize_data"
    /\ UNCHANGED <<retry_strategy, empty_response_handler, ewr, her, request, dataset,
                   analysis, facade, elapsed, sent, runs>>

\* normalize_data called on what it returned, with the same budget
CallNormalizeAgain ==
    /\ helper.fn = "normalize_data"
    /\ helper.result.twice = <<>>
    /\ helper' = [helper EXCEPT !.result.twice =
                     <<Normalized(helper.result.once.doc, helper.given.max_tokens)>>]
    /\ UNCHANGED <<caller, retry_strategy, empty_response_handler, ewr, her, request,
                   dataset, analysis, facade, elapsed, sent, runs>>

\* prose, then a fenced json block holding an object with title and summary
FencedAfterProse ==
    <<"w", " ", "fence", "json", " ", "{", "title", "summary", "}", " ", "fence">>
\* a fenced object followed by prose that ends in a closing brace
FencedBeforeBrace == <<"fence", "{", "title", "}", "fence", "w", "}">>

\* raw responses: empty, blank, prose, a full object, objects without the fields,
\* other JSON values, truncated JSON, single-quoted keys, prose around an object
HelperTexts ==
    {<<>>, <<" ">>, <<"w">>, FullText, <<"{", "}">>, <<"[1]">>, <<"null">>,
     <<"{", "title">>, <<"{", "title", "summary">>, <<"{", "'title'", "'summary'", "}">>,
     <<"{", "links", "}">>, <<"w", "{", "title", "summary", "}">>,
     <<"w", "{", "w", "}">>, <<"fence", "json", "{", "title", "}", "fence">>,
     LinksListText, FencedAfterProse, FencedBeforeBrace}

\* JSONResponseFormatter.parse_json_safely(text)
CallParseSafely ==
    /\ caller = ""
    /\ \E text \in HelperTexts :
          helper' = [fn |-> "parse_json_safely", given |-> text,
                     result |-> parse_json_safely(text)]
    /\ caller' = "parse_json_safely"
    /\ UNCHANGED <<retry_strategy, empty_response_handler, ewr, her, request, dataset,
                   analysis, facade, elapsed, sent, runs>>

\* what analyze_batch makes of a response whose content is text
CallBatchParse ==
    /\ caller = ""
    /\ \E text \in HelperTexts, analysis_type \in {"trends", "competitors", "metrics"} :
          helper' = [fn |-> "analyze_batch", given |-> text,
                     result |-> StageResult([HerIdle EXCEPT
                                               !.pc = "done", !.success = TRUE,
                                               !.response = Response(TRUE, FALSE, text)],
                                            analysis_type)]
    /\ caller' = "analyze_batch"
    /\ UNCHANGED <<retry_strategy, empty_response_handler, ewr, her, request, dataset,
                   analysis, facade, elapsed, sent, runs>>

IdleFrame ==
    [data |-> NoData, run |-> RunIdle, ewr |-> EwrIdle, her |-> HerIdle,
     request |-> NoRequest, facade |-> FacadeIdle]
PairDigest == [full |-> 600, reduced |-> 400, minimal |-> 100]

\* the results analyze_raw_data hands back to generate_report: what the synthesis
\* makes of a response, or the default response
ReportResults ==
    {parse_response(text) : text \in HelperTexts \ {<<>>, <<" ">>}}
    \cup {generate_default_response("metrics")}

\* generate_report(metrics_data, trends_analysis, competitors_analysis) from the
\* return of analyze_raw_data with doc to its own return
CallReport ==
    /\ caller = ""
    /\ \E doc \in ReportResults, rows \in {<<>>, <<1000>>},
          trends \in BOOLEAN, competitors \in BOOLEAN :
        LET S == [IdleFrame EXCEPT
                    !.data = BuildData("generate_report", rows, PairDigest),
                    !.facade = [FacadeIdle EXCEPT !.pc = "running",
                                                  !.trends_analysis = trends,
                                                  !.competitors_analysis = competitors]]
        IN  helper' = [fn |-> "generate_report",
                       given |-> [doc |-> doc, trends_analysis |-> trends,
                                  competitors_analysis |-> competitors],
                       result |-> FacadeReturn(S, "generate_report", doc)]
    /\ caller' = "generate_report_return"
    /\ UNCHANGED <<retry_strategy, empty_response_handler, ewr, her, request, dataset,
                   analysis, facade, elapsed, sent, runs>>

\* normalized results by their lengths: short fields, a summary of exactly 200
\* characters, one of 201, a long summary with long fields, long fields only
MaxEntries == 3
EntryLengths ==
    {[summary |-> 40, period_data |-> 44, dynamics |-> 60, factors |-> 65],
     [summary |-> 200, period_data |-> 44, dynamics |-> 100, factors |-> 65],
     [summary |-> 201, period_data |-> 44, dynamics |-> 101, factors |-> 65],
     [summary |-> 900, period_data |-> 150, dynamics |-> 400, factors |-> 300],
     [summary |-> 0, period_data |-> 150, dynamics |-> 60, factors |-> 300]}

\* synthesize_final_analysis with normalized results over the token ceiling: the
\* payload it rebuilds
CallShrinkPayload ==
    /\ caller = ""
    /\ \E n \in 1..MaxEntries :
        \E lengths \in [1..n -> EntryLengths] :
            LET entries == [k \in 1..n |->
                              [summary |-> lengths[k].summary,
                               period_data |-> lengths[k].period_data,
                               dynamics |-> lengths[k].dynamics,
                               factors |-> lengths[k].factors,
                               batch_index |-> k - 1]]
            IN  helper' = [fn |-> "synthesize_final_analysis", given |-> entries,
                           result |-> ShrinkPayload(entries)]
    /\ caller' = "synthesize_final_analysis"
    /\ UNCHANGED <<retry_strategy, empty_response_handler, ewr, her, request, dataset,
                   analysis, facade, elapsed, sent, runs>>

(***************************************************************************)
(* Two coroutines of analyze_raw_data on the one module-level service. The *)
(* locals of each coroutine are its own frame in runs; retry_strategy and  *)
(* empty_response_handler are the attributes of the service both read.     *)
(***************************************************************************)
RunIds == {1, 2}

\* the datasets of the two callers: one batch, one batch over the ceiling, two batches
PairRowSeqs == {<<1000>>, <<3000>>, <<1500, 1500, 1500, 1500>>}
PairOutcomes == {Raises, Response(TRUE, FALSE, <<" ">>), Response(TRUE, FALSE, FullText)}

\* variant of FrameOf: retries and delay of execute_with_retry live in one place
\* shared by the coroutines
FrameOfShared(frames, r) == [frames[r] EXCEPT !.ewr = frames[1].ewr]

\* the locals the code of coroutine r works on
FrameOf(frames, r) == frames[r]

PairInvoke ==
    \E r \in RunIds, rows \in PairRowSeqs :
        /\ runs[r].facade.pc = "idle"
        /\ runs' = [runs EXCEPT ![r] = Invoked(FrameOf(runs, r), "analyze_raw_data", rows,
                                               PairDigest, FALSE, FALSE)]
        /\ UNCHANGED <<caller, retry_strategy, empty_response_handler, ewr, her, request,
                       dataset, analysis, facade, helper, elapsed, sent>>

PairResponds ==
    \E r \in RunIds, outcome \in PairOutcomes :
        /\ runs[r].ewr.pc = "awaiting"
        /\ runs' = [runs EXCEPT ![r] = Responded(FrameOf(runs, r), outcome)]
        /\ UNCHANGED <<caller, retry_strategy, empty_response_handler, ewr, her, request,
                       dataset, analysis, facade, helper, elapsed, sent>>

PairRetryWake ==
    \E r \in RunIds :
        /\ runs[r].ewr.pc = "sleeping"
        /\ runs' = [runs EXCEPT ![r] = RetryWoken(FrameOf(runs, r))]
        /\ UNCHANGED <<caller, retry_strategy, empty_response_handler, ewr, her, request,
                       dataset, analysis, facade, helper, elapsed, sent>>

PairGuardWake ==
    \E r \in RunIds :
        /\ runs[r].her.pc = "sleeping"
        /\ runs' = [runs EXCEPT ![r] = GuardWoken(FrameOf(runs, r))]
        /\ UNCHANGED <<caller, retry_strategy, empty_response_handler, ewr, her, request,
                       dataset, analysis, facade, helper, elapsed, sent>>

(***************************************************************************)
(* Specifications.                                                         *)
(***************************************************************************)
Strategies ==
    [max_retries : 0..MaxRetriesBound, initial_delay : 1..MaxInitialDelay,
     backoff_factor : 1..MaxBackoffFactor]
Handlers ==
    [max_retries : 0..MaxHandlerRetries, delay_between_retries : 1..MaxHandlerDelay]

DefaultStrategy ==
    [max_retries |-> DefaultMaxRetries, initial_delay |-> DefaultInitialDelay,
     backoff_factor |-> DefaultBackoffFactor]
DefaultHandler ==
    [max_retries |-> DefaultHandlerMaxRetries,
     delay_between_retries |-> DefaultHandlerDelay]

Idle ==
    /\ caller = ""
    /\ ewr = EwrIdle
    /\ her = HerIdle
    /\ request = NoRequest
    /\ dataset = NoData
    /\ analysis = RunIdle
    /\ facade = FacadeIdle
    /\ helper = NoCall
    /\ elapsed = 0
    /\ sent = 0
    /\ runs = <<>>

\* execute_with_retry alone, for every strategy within the bounds
InitRetry ==
    /\ Idle
    /\ retry_strategy \in Strategies
    /\ empty_response_handler = DefaultHandler
NextRetry == InvokeRetry \/ ProviderResponds \/ RetryWake
SpecRetry == InitRetry /\ [][NextRetry]_vars

\* handle_empty_response around execute_with_retry, for every handler within the bounds
InitGuard ==
    /\ Idle
    /\ retry_strategy \in {s \in Strategies : s.max_retries <= 1 /\ s.initial_delay = 1}
    /\ empty_response_handler \in Handlers
NextGuard == InvokeGuard \/ ProviderResponds \/ RetryWake \/ GuardWake
SpecGuard == InitGuard /\ [][NextGuard]_vars

\* the helper functions called on their own
InitCalls ==
    /\ Idle
    /\ retry_strategy = DefaultStrategy
    /\ empty_response_handler = DefaultHandler
NextCalls ==
    \/ CallConsolidate
    \/ CallSplit
    \/ CallNormalize
    \/ CallNormalizeAgain
    \/ CallParseSafely
    \/ CallBatchParse
    \/ CallReport
    \/ CallShrinkPayload
SpecCalls == InitCalls /\ [][NextCalls]_vars

\* the module-level service with two analyze_raw_data coroutines
InitPair ==
    /\ caller = "analyze_raw_data"
    /\ ewr = EwrIdle
    /\ her = HerIdle
    /\ request = NoRequest
    /\ dataset = NoData
    /\ analysis = RunIdle
    /\ facade = FacadeIdle
    /\ helper = NoCall
    /\ elapsed = 0
    /\ sent = 0
    /\ runs = [r \in RunIds |-> IdleFrame]
    /\ retry_strategy = DefaultStrategy
    /\ empty_response_handler = DefaultHandler
NextPair == PairInvoke \/ PairResponds \/ PairRetryWake \/ PairGuardWake
SpecPair == InitPair /\ [][NextPair]_vars

\* one model-call stage of the service as the module constructs it: the guard around
\* execute_with_retry around call_api, with the sleeps summed up in elapsed
InitStage ==
    /\ Idle
    /\ retry_strategy = DefaultStrategy
    /\ empty_response_handler = DefaultHandler
NextStage == InvokeGuard \/ InvokeChat \/ ProviderResponds \/ RetryWake \/ GuardWake
SpecStage == InitStage /\ [][NextStage]_vars

\* the service as the module constructs it: one facade call
Init ==
    /\ Idle
    /\ retry_strategy = DefaultStrategy
    /\ empty_response_handler = DefaultHandler
Next == InvokeFacade \/ ProviderResponds \/ RetryWake \/ GuardWake
Spec == Init /\ [][Next]_vars

(***************************************************************************)
(* Properties.                                                             *)
(***************************************************************************)
RECURSIVE Pow(_, _)
Pow(b, e) == IF e = 0 THEN 1 ELSE b * Pow(b, e - 1)

\* a response whose first choice has non-null content that is not only whitespace
NonBlank(r) ==
    /\ ~r.raises
    /\ r.choices
    /\ ~r.content_is_none
    /\ \E k \in 1..Len(r.content) : r.content[k] # " "

\* C3: execute_with_retry with max_retries = N calls the operation at most N+1 times,
\* and when it raises it has called it exactly N+1 times.
C3_RetryBound ==
    caller = "execute_with_retry" =>
        /\ ewr.attempts <= retry_strategy.max_retries + 1
        /\ ewr.pc = "raised" => ewr.attempts = retry_strategy.max_retries + 1

C3_Witness ==
    /\ caller = "execute_with_retry"
    /\ retry_strategy.max_retries = 3
    /\ ewr.pc = "raised"
    /\ ewr.attempts = 4

\* C4: the i-th sleep of execute_with_retry (i from 0) lasts
\* initial_delay * backoff_factor^i, and there is one sleep per failed attempt
\* i < max_retries.
C4_BackoffDelays ==
    caller = "execute_with_retry" =>
        /\ Len(ewr.slept) <= retry_strategy.max_retries
        /\ \A i \in 0..(Len(ewr.slept) - 1) :
              ewr.slept[i + 1] =
                  retry_strategy.initial_delay * Pow(retry_strategy.backoff_factor, i)
        /\ ewr.pc = "raised" => Len(ewr.slept) = retry_strategy.max_retries
        /\ ewr.pc = "sleeping" => Len(ewr.slept) = ewr.retries

C4_Witness ==
    /\ caller = "execute_with_retry"
    /\ retry_strategy.initial_delay = 2
    /\ retry_strategy.backoff_factor = 3
    /\ ewr.slept = <<2, 6, 18>>

\* C5: handle_empty_response counts a blank response as a failed attempt, calls at
\* most max_retries times, sleeps the same delay_between_retries before every retry,
\* and gives up with (False, None) only when the attempts are used up.
C5_BlankIsRetried ==
    caller = "handle_empty_response" =>
        /\ her.calls <= empty_response_handler.max_retries
        /\ Len(her.slept) <= empty_response_handler.max_retries
        /\ \A k \in 1..Len(her.slept) :
              her.slept[k] = empty_response_handler.delay_between_retries
        /\ (her.pc = "done" /\ ~her.success) =>
              /\ her.retries = empty_response_handler.max_retries
              /\ her.response = NoResponse
        /\ (her.pc # "idle" /\ ewr.pc = "returned" /\ ~NonBlank(ewr.result)) =>
              /\ ~her.success
              /\ her.retries >= 1
              /\ her.pc = "sleeping" <=>
                    her.retries < empty_response_handler.max_retries

C5_Witness ==
    /\ caller = "handle_empty_response"
    /\ empty_response_handler.max_retries = 3
    /\ her.pc = "done"
    /\ ~her.success
    /\ Len(her.slept) = 2
    /\ ewr.pc = "returned"
    /\ ewr.result = Response(TRUE, FALSE, <<" ">>)

\* C6: handle_empty_response returns success = True only with a response whose
\* first choice has non-blank content, at the first attempt that yields one; every
\* other return is (False, None).
C6_SuccessOnlyWithContent ==
    caller = "handle_empty_response" =>
        /\ her.success => /\ her.pc = "done"
                          /\ NonBlank(her.response)
                          /\ ewr.pc = "returned"
                          /\ her.response = ewr.result
        /\ ~her.success => her.response = NoResponse
        /\ (ewr.pc = "returned" /\ NonBlank(ewr.result)) =>
              her.pc = "done" /\ her.success

C6_Witness ==
    /\ caller = "handle_empty_response"
    /\ her.pc = "done"
    /\ her.success
    /\ her.calls = 2
    /\ NonBlank(her.response)

\* the order of states of a run over n batches
Canonical(n) ==
    <<Visit("Consolidating", 0)>>
    \o [k \in 1..n |-> Visit("BatchAnalyzing", k - 1)]
    \o <<Visit("Synthesizing", 0), Visit("Done", 0)>>

Visits(state) == {k \in 1..Len(analysis.trace) : analysis.trace[k].state = state}

AllFields ==
    {"title", "summary", "period_data", "dynamics", "factors", "links",
     "completed_tasks", "pending_tasks"}

\* C1: no facade operation raises, whatever the dataset and the provider outcomes.
C1_NeverRaises == InRun => facade.pc # "raised"

\* C2: the object a facade operation returns holds all eight AnalysisResult fields
\* (period being the key period_data), whatever the provider returned.
C2_AllFieldsPresent ==
    (InRun /\ facade.pc = "returned") =>
        /\ IsDict(facade.result)
        /\ \A k \in AllFields : Has(facade.result, k)

\* C7: a run visits Consolidating, BatchAnalyzing(0), ..., BatchAnalyzing(n-1),
\* Synthesizing, Done in that order, each once: while batch i is analysed the results
\* of exactly the batches before it are in, and the synthesis starts with all n.
C7_StateOrder ==
    InRun =>
        LET n == Len(analysis.batches)
            t == analysis.trace
        IN  /\ Len(t) \in 1..(n + 3)
            /\ t = SubSeq(Canonical(n), 1, Len(t))
            /\ t[Len(t)].state = analysis.pc
            /\ analysis.pc = "BatchAnalyzing" =>
                  /\ t[Len(t)].i = analysis.i
                  /\ Len(analysis.batch_results) = analysis.i
            /\ analysis.pc \in {"Synthesizing", "Done"} =>
                  Len(analysis.batch_results) = n
            /\ (ewr.pc \in {"awaiting", "sleeping"} \/ her.pc = "sleeping") =>
                  analysis.pc \in {"BatchAnalyzing", "Synthesizing"}

C7_Witness ==
    /\ InRun
    /\ Len(analysis.batches) = 4
    /\ analysis.pc = "Done"
    /\ analysis.trace = Canonical(4)
    /\ facade.pc = "returned"

\* C8: a batch whose analysis fails gets generate_default_response(kind) as its
\* entry of batch_results; every other batch keeps the result parsed from its own
\* answer, and the synthesis is entered with all n batch results.
C8_FailedBatchIsolated ==
    InRun =>
        /\ Len(analysis.answers) = Len(analysis.batch_results)
        /\ \A j \in 1..Len(analysis.batch_results) :
              IF analysis.answers[j].success
              THEN analysis.batch_results[j] = parse_response(analysis.answers[j].content)
              ELSE analysis.batch_results[j] =
                      generate_default_response(analysis.analysis_type)
        /\ analysis.pc \in {"Synthesizing", "Done"} =>
              /\ Len(analysis.batch_results) = Len(analysis.batches)
              /\ Cardinality(Visits("Synthesizing")) = 1

C8_Witness ==
    /\ InRun
    /\ Len(analysis.batches) = 4
    /\ analysis.pc = "Synthesizing"
    /\ ewr.pc = "awaiting"
    /\ ~analysis.answers[2].success
    /\ \A j \in {1, 3, 4} :
          /\ analysis.answers[j].success
          /\ analysis.answers[j].content = FullText
          /\ \A k \in AllFields : Has(analysis.batch_results[j], k)
    /\ analysis.batch_results[2] = generate_default_response(analysis.analysis_type)

\* the positions (from 0) of the first m batch results that are not empty
FirstKept(m) ==
    {j \in 0..(Len(analysis.batch_results) - 1) :
        /\ DocTruthy(analysis.batch_results[j + 1])
        /\ Cardinality({h \in 0..j : DocTruthy(analysis.batch_results[h + 1])}) <= m}

\* C9: the entry of normalized_results built from the result of batch i carries
\* batch_index = i, the entries are in increasing batch_index, and they are the
\* leading non-empty batch results, also when some results are skipped as empty.
C9_BatchOrderKept ==
    InRun =>
        LET entries == analysis.normalized_results
            results == analysis.batch_results
        IN  /\ \A k \in 1..Len(entries) :
                  /\ entries[k].batch_index \in 0..(Len(results) - 1)
                  /\ LET result == results[entries[k].batch_index + 1]
                     IN  /\ IsDict(result)
                         /\ DocTruthy(result)
                         /\ \A f \in {"title", "summary"} :
                               Has(result, f) => entries[k].items[f] = result.items[f]
            /\ \A k \in 1..Len(entries), l \in 1..Len(entries) :
                  k < l => entries[k].batch_index < entries[l].batch_index
            /\ {entries[k].batch_index : k \in 1..Len(entries)} = FirstKept(Len(entries))

C9_Witness ==
    /\ InRun
    /\ analysis.pc = "Synthesizing"
    /\ Len(analysis.batch_results) = 3
    /\ analysis.batch_results[2] = JDict(NoItems)
    /\ Len(analysis.normalized_results) = 2
    /\ analysis.normalized_results[1].batch_index = 0
    /\ analysis.normalized_results[2].batch_index = 2

\* C10, as stated: at the end of a run the expensive model has been called exactly
\* once, by the synthesis.
C10_ExpensiveExactlyOnce ==
    (InRun /\ analysis.pc = "Done") =>
        /\ request.model = ExpensiveModel
        /\ her.calls = 1

\* C10: every request sent while batches are analysed names the cheap model; the
\* expensive model is requested only by the synthesis, after all batch results are
\* in; the synthesis is entered at most once per run, and it may send no request
\* (no usable batch result) or several (retries).
C10_ModelByStage ==
    InRun =>
        /\ analysis.pc = "BatchAnalyzing" => request.model = CheapModel
        /\ analysis.pc = "Synthesizing" => request.model = ExpensiveModel
        /\ request.model = ExpensiveModel =>
              /\ analysis.pc \in {"Synthesizing", "Done"}
              /\ Len(analysis.batch_results) = Len(analysis.batches)
        /\ request.model \in {CheapModel, ExpensiveModel}
        /\ Cardinality(Visits("Synthesizing")) <= 1

C10_Witness ==
    /\ InRun
    /\ analysis.pc = "Synthesizing"
    /\ Len(analysis.batches) = 3
    /\ request.model = ExpensiveModel
    /\ her.calls = 2
    /\ ewr.pc = "awaiting"
    /\ ewr.attempts = 2

RECURSIVE Flatten(_)
Flatten(seqs) == IF Len(seqs) = 0 THEN <<>> ELSE Head(seqs) \o Flatten(Tail(seqs))

\* the rows behind each batch, in batch order
BatchRows(batches) == Flatten([b \in 1..Len(batches) |-> batches[b].rows])

\* C11: consolidate_data returns at most max_api_calls batches.
C11_AtMostMaxBatches ==
    helper.fn = "consolidate_data" => Len(helper.result) <= MaxApiCalls

\* C12: for a dataset of more than max_api_calls rows the batches of the token split
\* partition the rows: every row is behind exactly one batch, in the original order,
\* and the row counts of the batches sum to the row count of the dataset; the same
\* holds for what consolidate_data returns when no batch stands for several.
C12_BatchesPartitionRows ==
    LET n == Len(helper.given.rows)
        merged == \E b \in 1..Len(helper.result) : Len(helper.result[b].merged_from) > 1
    IN  (/\ helper.fn \in {"consolidate_data_by_token_limit", "consolidate_data"}
         /\ n > MaxApiCalls
         /\ ~merged) =>
            /\ BatchRows(helper.result) = Range(1, n)
            /\ SumSeq([b \in 1..Len(helper.result) |-> Len(helper.result[b].rows)]) = n
            /\ \A b \in 1..Len(helper.result) : Len(helper.result[b].rows) > 0

C12_Witness ==
    /\ helper.fn = "consolidate_data_by_token_limit"
    /\ helper.given.rows = <<2000, 1000, 1000, 2000, 1000>>
    /\ Len(helper.result) = 3
    /\ helper.result[1].rows = <<1, 2>>
    /\ helper.result[2].rows = <<3, 4>>
    /\ helper.result[3].rows = <<5>>

\* C13: a request is sent only with messages whose token estimate is within the
\* ceiling of its stage (3500 for a batch, 3000 for the synthesis).
C13_RequestWithinCeiling ==
    (InRun /\ ewr.pc = "awaiting") => request.tokens <= StageCeiling(analysis.pc)

\* C14: normalize_data makes at most 3 reductions, and what it returns is within
\* the budget or is the minimal form.
C14_WithinBudgetOrMinimal ==
    helper.fn = "normalize_data" =>
        /\ helper.result.once.steps <= 3
        /\ \/ helper.result.once.doc.size <= helper.given.max_tokens
           \/ helper.result.once.doc.level = "minimal"

\* C15: normalize_data applied to its own output with the same budget returns that
\* output: nothing is reduced a second time.
C15_NormalizeIdempotent ==
    (helper.fn = "normalize_data" /\ helper.result.twice # <<>>) =>
        /\ helper.result.twice[1].doc = helper.result.once.doc
        /\ helper.result.twice[1].steps = 0

C15_Witness ==
    /\ helper.fn = "normalize_data"
    /\ helper.given.doc.has_data
    /\ helper.given.max_tokens = 3000
    /\ helper.result.once.doc.level = "reduced"
    /\ helper.result.once.steps = 1
    /\ helper.result.twice = <<[doc |-> helper.result.once.doc, steps |-> 0]>>

NonEmptyText(doc, key) ==
    /\ Has(doc, key)
    /\ doc.items[key].ty = "str"
    /\ doc.items[key].v # ""

\* C16: whatever the raw response, parsing returns a dict that has the keys title and
\* summary, and for the empty response both are non-empty texts.
C16_RepairTotal ==
    helper.fn \in {"parse_json_safely", "analyze_batch"} =>
        /\ IsDict(helper.result)
        /\ Has(helper.result, "title")
        /\ Has(helper.result, "summary")
        /\ helper.given = <<>> =>
              NonEmptyText(helper.result, "title") /\ NonEmptyText(helper.result, "summary")

\* C17: the dict a caller hands to analyze_raw_data is the same after the call as it
\* was before it.
C17_DatasetUnchanged ==
    (caller = "analyze_raw_data" /\ facade.pc \in {"returned", "raised"}) =>
        dataset = facade.given

\* what one coroutine can do next when it runs alone on the service
SoloSteps(S) ==
    {Invoked(S, "analyze_raw_data", rows, PairDigest, FALSE, FALSE) :
        rows \in {q \in PairRowSeqs : S.facade.pc = "idle"}}
    \cup {Responded(S, outcome) : outcome \in {o \in PairOutcomes : S.ewr.pc = "awaiting"}}
    \cup {RetryWoken(S) : x \in {y \in {1} : S.ewr.pc = "sleeping"}}
    \cup {GuardWoken(S) : x \in {y \in {1} : S.her.pc = "sleeping"}}

RECURSIVE BackoffSum(_, _)
BackoffSum(strategy, last) ==
    IF last < 0 THEN 0
    ELSE strategy.initial_delay * Pow(strategy.backoff_factor, last)
         + BackoffSum(strategy, last - 1)

InStage == caller \in {"handle_empty_response", "chat_completion"}

\* C19 as stated: the sleeps of one model-call stage add up to at most the sum over i
\* in 0..max_retries of initial_delay * backoff_factor^i (15 with the defaults).
C19_StageWithinBackoffSum ==
    InStage => elapsed <= BackoffSum(retry_strategy, retry_strategy.max_retries)

\* what one stage can sleep at most: every call of execute_with_retry the guard makes
\* sleeps max_retries times, and the guard sleeps between its calls
StageSleepBound ==
    empty_response_handler.max_retries
        * BackoffSum(retry_strategy, retry_strategy.max_retries - 1)
    + (empty_response_handler.max_retries - 1)
        * empty_response_handler.delay_between_retries

\* C19: the sleeps of one model-call stage add up to at most handler.max_retries
\* times the sum over i in 0..max_retries-1 of initial_delay * backoff_factor^i, plus
\* handler.max_retries - 1 times delay_between_retries (25 with the defaults).
C19_StageSleepBounded == InStage => elapsed <= StageSleepBound

\* every request of the stage raised: three calls of execute_with_retry slept 1, 2 and
\* 4 each, and the guard slept twice between them
C19_Witness ==
    /\ caller = "handle_empty_response"
    /\ her.pc = "done"
    /\ ~her.success
    /\ her.calls = 3
    /\ ewr.slept = <<1, 2, 4>>
    /\ her.slept = <<2, 2>>
    /\ elapsed = 25

\* C20: a request carries response_format only when its model is an entry of the
\* allow-list.
C20_FormatOnlyForListed ==
    (request # NoRequest /\ request.response_format) =>
        request.model \in JSON_FORMAT_SUPPORTED_MODELS

\* C21: analyze_trends returns a result whose dynamics.total_rows is the number of
\* records made from the metrics, whatever the provider answered.
C21_TotalRowsIsRecordCount ==
    (caller = "analyze_trends" /\ facade.pc = "returned") =>
        /\ IsDict(facade.result)
        /\ Has(facade.result, "dynamics")
        /\ facade.result.items["dynamics"] = Obj("dynamics", Len(dataset.rows))

\* C22: generate_report returns, and the internal links of what it returns are those
\* of the analysis result plus one for each prior analysis supplied.
C22_LinksAppended ==
    helper.fn = "generate_report" =>
        /\ helper.result.pc = "returned"
        /\ helper.result.result.items["links"].n =
              (IF Has(helper.given.doc, "links") THEN helper.given.doc.items["links"].n
               ELSE 0)
              + (IF helper.given.trends_analysis THEN 1 ELSE 0)
              + (IF helper.given.competitors_analysis THEN 1 ELSE 0)

\* C23: for a dataset of at most max_api_calls records, an empty one included,
\* consolidate_data returns one batch, and it is the dataset itself: all its records,
\* not summarized, not merged.
C23_SmallDatasetIsItsOwnBatch ==
    (helper.fn = "consolidate_data" /\ Len(helper.given.rows) <= MaxApiCalls) =>
        /\ Len(helper.result) = 1
        /\ helper.result[1].form = "dataset"
        /\ helper.result[1].rows = Range(1, Len(helper.given.rows))
        /\ helper.result[1].has_data = helper.given.has_data
        /\ helper.result[1].merged_from = <<>>

\* three records of 3000 tokens each, more than one batch may hold, come back as one
C23_Witness ==
    /\ helper.fn = "consolidate_data"
    /\ helper.given.rows = <<3000, 3000, 3000>>
    /\ Len(helper.result) = 1
    /\ helper.result[1].form = "dataset"

\* token count of the rows behind a batch
RawTokens(rows, batch) == SumSeq([k \in 1..Len(batch.rows) |-> rows[batch.rows[k]]])

\* C24: the token split is greedy in row order: every batch is a contiguous run of
\* rows and the runs follow one another; a batch was sealed exactly when the next row
\* would have taken it over the budget, so a batch of several rows is within the budget
\* and a batch over the budget holds one row.
C24_GreedySplit ==
    LET rows == helper.given.rows
        batches == helper.result
    IN  (helper.fn = "consolidate_data_by_token_limit" /\ Len(rows) > 0) =>
            /\ BatchRows(batches) = Range(1, Len(rows))
            /\ \A b \in 1..Len(batches) :
                  /\ Len(batches[b].rows) > 0
                  /\ batches[b].rows =
                        Range(batches[b].rows[1],
                              batches[b].rows[1] + Len(batches[b].rows) - 1)
                  /\ RawTokens(rows, batches[b]) > MaxTokensPerBatch =>
                        Len(batches[b].rows) = 1
            /\ \A b \in 1..(Len(batches) - 1) :
                  RawTokens(rows, batches[b]) + rows[batches[b + 1].rows[1]]
                      > MaxTokensPerBatch

\* a full batch of two rows, a row over the budget alone in its batch, and the rest
C24_Witness ==
    /\ helper.fn = "consolidate_data_by_token_limit"
    /\ helper.given.rows = <<1000, 2000, 4000, 1000, 1000>>
    /\ Len(helper.result) = 3
    /\ helper.result[1].rows = <<1, 2>>
    /\ helper.result[2].rows = <<3>>
    /\ helper.result[3].rows = <<4, 5>>

\* C25: when the token split gives more than max_api_calls batches, the merged_from
\* lists of the returned batches, one after the other, are the indices 0..n-1 of the
\* split in order (contiguous ranges, disjoint, nothing left out); a returned batch
\* has the content of the first batch of its range, and the returned batches are
\* numbered 0..k-1.
C25_MergedRangesCover ==
    LET split == consolidate_data_by_token_limit(helper.given)
        merged == helper.result
    IN  (/\ helper.fn = "consolidate_data"
         /\ Len(helper.given.rows) > MaxApiCalls
         /\ Len(split) > MaxApiCalls) =>
            /\ Flatten([m \in 1..Len(merged) |-> merged[m].merged_from])
                  = Range(0, Len(split) - 1)
            /\ \A m \in 1..Len(merged) :
                  /\ Len(merged[m].merged_from) > 0
                  /\ merged[m].batch_index = m - 1
                  /\ merged[m].rows = split[merged[m].merged_from[1] + 1].rows
                  /\ merged[m].level = split[merged[m].merged_from[1] + 1].level
                  /\ merged[m].form = split[merged[m].merged_from[1] + 1].form

\* six batches of one row merged into three, each standing for two
C25_Witness ==
    /\ helper.fn = "consolidate_data"
    /\ helper.given.rows = <<4000, 3000, 4000, 3000, 4000, 3000>>
    /\ Len(helper.result) = 3
    /\ helper.result[1].merged_from = <<0, 1>>
    /\ helper.result[2].merged_from = <<2, 3>>
    /\ helper.result[3].merged_from = <<4, 5>>
    /\ helper.result[2].rows = <<3>>

\* C26: a digest still over the budget after the first reduction comes back in the
\* minimal form, which holds the row count, the column count, the columns and the
\* key metrics.
C26_MinimalKeepsKeyMetrics ==
    (/\ helper.fn = "normalize_data"
     /\ helper.result.once.doc.form = "digest"
     /\ helper.result.once.doc.level = "minimal") =>
        SummaryKeys(helper.result.once.doc.level)
            = {"rows_count", "columns_count", "columns", "key_metrics"}

\* C27: the repair of a response that is not blank returns the result of the first
\* step that succeeds, in the order direct parse, parse of the extracted text (the
\* fenced block, else the span from the first to the last brace), parse of the
\* repaired span, free-text fallback; prose followed by a fenced json block holding
\* title and summary yields exactly that object.
C27_FirstSuccessfulStep ==
    LET text == helper.given
        direct == json_loads(text)
        extracted == extract_json_from_text(text)
        second == json_loads(extracted.text)
        start_idx == find(text, "{")
        end_idx == rfind(text, "}")
        fixed == json_loads(fix_json_string(SubSeq(text, start_idx, end_idx)))
        step1 == direct.ok
        step2 == ~step1 /\ extracted.found /\ second.ok
        step3 == ~step1 /\ ~step2 /\ start_idx # 0 /\ end_idx # 0 /\ fixed.ok
    IN  (helper.fn = "analyze_batch" /\ text \notin {<<>>, <<" ">>}) =>
            /\ step1 => helper.result = direct.value
            /\ step2 => helper.result = second.value
            /\ step3 => helper.result = fixed.value
            /\ (~step1 /\ ~step2 /\ ~step3) =>
                  /\ IsDict(helper.result)
                  /\ Has(helper.result, "error")
                  /\ helper.result.items["summary"] = Str("raw_content")
            /\ text = FencedAfterProse =>
                  helper.result = JDict([k \in {"title", "summary"} |-> ItemVal(k)])
            /\ text = FencedBeforeBrace =>
                  helper.result = JDict([k \in {"title"} |-> ItemVal(k)])

C27_Witness ==
    /\ helper.fn = "analyze_batch"
    /\ helper.given = FencedAfterProse
    /\ ~json_loads(helper.given).ok
    /\ helper.result = JDict([k \in {"title", "summary"} |-> ItemVal(k)])

\* C28: the payload rebuilt over the synthesis ceiling holds at most the first two
\* entries in order, every summary in it has at most 200 characters, and period_data,
\* dynamics and factors longer than 100 characters are replaced by their placeholders.
C28_PayloadShortened ==
    helper.fn = "synthesize_final_analysis" =>
        /\ Len(helper.result) <= 2
        /\ \A k \in 1..Len(helper.result) :
              /\ helper.result[k].batch_index = helper.given[k].batch_index
              /\ helper.result[k].summary <= SummaryLimit
              /\ helper.given[k].period_data > FieldLimit =>
                    helper.result[k].period_data = PeriodPlaceholderLength
              /\ helper.given[k].dynamics > FieldLimit =>
                    helper.result[k].dynamics = DynamicsPlaceholderLength
              /\ helper.given[k].factors > FieldLimit =>
                    helper.result[k].factors = FactorsPlaceholderLength

\* C29: in one model-call stage an exception of execute_with_retry after its last
\* attempt does not leave the guard: it is counted as one failed attempt of the guard,
\* which then sleeps or gives up; the requests of the stage number at most
\* handler.max_retries * (max_retries + 1), 12 with the defaults.
C29_StageRequestsBounded ==
    InStage =>
        /\ sent <= empty_response_handler.max_retries * (retry_strategy.max_retries + 1)
        /\ ewr.attempts <= retry_strategy.max_retries + 1
        /\ her.calls <= empty_response_handler.max_retries
        /\ ewr.pc = "raised" =>
              /\ her.pc \in {"sleeping", "done"}
              /\ her.retries = her.calls
              /\ her.pc = "done" => ~her.success

\* three calls of execute_with_retry of four failed requests each
C29_Witness ==
    /\ caller = "handle_empty_response"
    /\ her.pc = "done"
    /\ her.calls = 3
    /\ ewr.pc = "raised"
    /\ ewr.attempts = 4
    /\ sent = 12

\* C30: when handle_empty_response gives up, every call having raised or answered
\* blank, it has made exactly max_retries calls of the wrapped function and slept
\* exactly max_retries - 1 times, the last call not being followed by a sleep; with
\* max_retries = 0 it returns (False, None) having made no call and no request.
C30_GuardCallsExactlyMaxRetries ==
    (caller = "handle_empty_response" /\ her.pc = "done" /\ ~her.success) =>
        /\ her.calls = empty_response_handler.max_retries
        /\ her.response = NoResponse
        /\ Len(her.slept) =
              (IF empty_response_handler.max_retries = 0 THEN 0
               ELSE empty_response_handler.max_retries - 1)
        /\ \A k \in 1..Len(her.slept) :
              her.slept[k] = empty_response_handler.delay_between_retries
        /\ empty_response_handler.max_retries = 0 => (sent = 0 /\ ewr = EwrIdle)

C30_Witness ==
    /\ caller = "handle_empty_response"
    /\ empty_response_handler.max_retries = 3
    /\ her.pc = "done"
    /\ ~her.success
    /\ her.calls = 3
    /\ Len(her.slept) = 2
    /\ sent >= 3

====
